---- MODULE Spec2Model ----
(***************************************************************************)
(* A model of the clawmail mailbox store: the messages / threads /         *)
(* approved_senders / message_labels / attachments / drafts relations and  *)
(* the request handlers of src/src/api.ts together with the library        *)
(* functions of src/src/drafts.ts, src/src/labels.ts, src/src/search.ts    *)
(* and the archive helpers.  Every `await` on the store or on the external *)
(* sender is a point where another request may run, so a handler that      *)
(* issues several store calls is a sequence of steps of one request slot.  *)
(***************************************************************************)
EXTENDS Integers, Sequences, FiniteSets, TLC

\* ------------------------------------------------------------------ bounds
MaxProcs == 2      \* request slots that may be in flight at once
MaxMsgs == 2       \* rows of the messages table
MaxDrafts == 1     \* draft ids ever handed out
MaxSends == 2      \* mails the external sender accepts
MaxTime == 1       \* last value of the millisecond clock

Procs == 1..MaxProcs

\* ------------------------------------------------------------------ values
NULL == "NULL"     \* SQL NULL / JS null
UNDEF == "UNDEF"   \* a property absent from the request body

\* A check for null and undefined only, which lets the empty string through.
IsNullish(v) == v \in {UNDEF, NULL}

\* JS `!v` on a nullable string
Falsy(v) == v \in {UNDEF, NULL, ""}

\* Sender addresses: "A@x" and "a@x" are the same mailbox in two letter cases.
Emails == {"a@x", "A@x", "b@x"}

\* String.prototype.toLowerCase on the addresses above.
toLowerCase(s) == IF s = "A@x" THEN "a@x" ELSE s

Names == {NULL, "n1", "n2"}
ThreadIds == {"t1", "t2"}
ProviderIds == {"a", "b"}                    \* Message-ID headers of inbound mail
\* The identifier the provider gives the k-th mail it accepts.
ProviderId(k) == <<"p1", "p2", "p3", "p4", "p5", "p6">>[k]
Labels == {"x", "y"}

\* ------------------------------------------------------------------ state
VARIABLES
  messages,          \* table messages: sequence of rows, row i has id i
  threads,           \* table threads: set of thread ids that have a row
  approved_senders,  \* table approved_senders: set of rows
  message_labels,    \* table message_labels: set of rows
  attachments,       \* table attachments: set of rows
  drafts,            \* table drafts: set of rows
  draftSeq,          \* number of draft ids handed out so far
  pc,                \* per request slot: the handler in flight and its locals
  resp,              \* the response most recently returned to a caller
  now,               \* Date.now()
  sent,              \* external sender: for each mail it accepted, the draft id (0: none)
  env,               \* Env: the bindings of the deployment, fixed for a run
  hist               \* history of the run (not program state)

vars == <<messages, threads, approved_senders, message_labels, attachments,
          drafts, draftSeq, pc, resp, now, sent, env, hist>>

Idle == [op |-> "idle"]

MsgIds == 1..Len(messages)
Msg(i) == messages[i]
Range(s) == {s[i] : i \in 1..Len(s)}
Min(a, b) == IF a < b THEN a ELSE b

\* ------------------------------------------------------------------ history
\* DraftParams with no property given.
NoParams ==
  [to |-> UNDEF, cc |-> UNDEF, bcc |-> UNDEF, subject |-> UNDEF, body_text |-> UNDEF,
   thread_id |-> UNDEF]

\* hist.appr follows runs of approve that no other step interrupts:
\*   stage 1: an approve has done its upsert          (first call)
\*   stage 2: that approve has finished               (first call returned)
\*   stage 3: the next step was the upsert of a second approve of the same email
\*   stage 4: the second approve has finished with nothing in between
NoRun == [stage |-> 0, email |-> NULL, proc |-> 0]

\* hist.removed[d]: which operation removed the row of draft d ("no": none yet)
\* hist.made[d]: the ids of the messages persisted by sends of draft d
\* hist.refs[i]: the References header message i was sent with (the messages
\*   table has no column for it), as the list of the ids it holds
\* hist.given[d]: the params draft d was created with
InitHist == [appr |-> NoRun,
             removed |-> [d \in 1..MaxDrafts |-> "no"],
             made |-> [d \in 1..MaxDrafts |-> {}],
             refs |-> [i \in 1..(MaxMsgs + MaxSends) |-> <<>>],
             given |-> [d \in 1..MaxDrafts |-> NoParams]]

\* Every step that is not part of an approve ends the current run of approves.
Other == hist' = [hist EXCEPT !.appr = NoRun]

\* No response is on its way to a caller.
NoResp == [op |-> "none"]

\* The handler answers r.
Reply(r) == resp' = r

\* The optional binding RESEND_WEBHOOK_SECRET of Env: set to a secret, or left out.
Envs == [RESEND_WEBHOOK_SECRET : {UNDEF, "s"}]

\* The empty store, no request in flight.
InitStore ==
  /\ messages = <<>>
  /\ threads = {}
  /\ approved_senders = {}
  /\ message_labels = {}
  /\ attachments = {}
  /\ drafts = {}
  /\ draftSeq = 0
  /\ pc = [p \in Procs |-> Idle]
  /\ resp = NoResp
  /\ now = 0
  /\ sent = <<>>
  /\ hist = InitHist

\* A deployment with the webhook secret set.
Init ==
  /\ InitStore
  /\ env = [RESEND_WEBHOOK_SECRET |-> "s"]

\* A deployment with any of the bindings Env allows.
InitAnyEnv ==
  /\ InitStore
  /\ env \in Envs

\* Inbound rows that requests in flight are still going to insert into messages.
InFlightInserts == Cardinality({p \in Procs : pc[p].op = "ingest"})

\* Inbound mail is bounded by MaxMsgs, outbound mail by MaxSends at the sender.
RoomForMessage ==
  Cardinality({i \in MsgIds : Msg(i).direction = "inbound"}) + InFlightInserts < MaxMsgs

\* Date.now() moves on between any two steps.
Tick ==
  /\ now < MaxTime
  /\ now' = now + 1
  /\ UNCHANGED <<messages, threads, approved_senders, message_labels, attachments,
                 drafts, draftSeq, pc, resp, sent, hist, env>>

\* ------------------------------------------------------------------ ingestion
\* ApprovalGate.isApproved: membership of the allow-list.
isApproved(email) == \E r \in approved_senders : r.email = toLowerCase(email)

NewMessage(id, th, mid, irt, from, subject, body, dir, appr, status, t) ==
  [id |-> id, thread_id |-> th, message_id |-> mid, in_reply_to |-> irt,
   from |-> from, subject |-> subject, body_text |-> body, direction |-> dir,
   approved |-> appr, status |-> status, archived |-> 0, created_at |-> t]

\* An inbound message arrives: the sender is looked up in the allow-list ...
IngestCheck(p, from, th, mid, subject, body, att) ==
  /\ pc[p] = Idle
  /\ RoomForMessage
  /\ pc' = [pc EXCEPT ![p] = [op |-> "ingest", from |-> from, thread_id |-> th,
                              message_id |-> mid, subject |-> subject,
                              body_text |-> body, att |-> att,
                              approved |-> IF isApproved(from) THEN 1 ELSE 0]]
  /\ Other
  /\ UNCHANGED <<messages, threads, approved_senders, message_labels, attachments,
                 drafts, draftSeq, resp, now, sent, env>>

\* ... and the row is stored, approved or pending as the lookup said.
IngestInsert(p) ==
  /\ pc[p].op = "ingest"
  /\ LET id == Len(messages) + 1
         l == pc[p]
     IN /\ messages' = Append(messages,
               NewMessage(id, l.thread_id, l.message_id, NULL, l.from, l.subject,
                          l.body_text, "inbound", l.approved, NULL, now))
        /\ threads' = threads \cup {l.thread_id}
        /\ attachments' = IF l.att
                          THEN attachments \cup {[id |-> id, message_id |-> id, r2_key |-> id]}
                          ELSE attachments
  /\ pc' = [pc EXCEPT ![p] = Idle]
  /\ Other
  /\ UNCHANGED <<approved_senders, message_labels, drafts, draftSeq, resp, now, sent, env>>

\* ------------------------------------------------------------------ approval
\* A plain INSERT, with no ON CONFLICT clause and no unique key to stop it.
InsertOnly(rows, normalized, name, t) ==
  rows \cup {[email |-> normalized, name |-> name, created_at |-> t]}

\* INSERT INTO approved_senders ... ON CONFLICT (email) DO UPDATE SET name
Upsert(rows, normalized, name, t) ==
  IF \E r \in rows : r.email = normalized
  THEN {IF r.email = normalized THEN [r EXCEPT !.name = name] ELSE r : r \in rows}
  ELSE rows \cup {[email |-> normalized, name |-> name, created_at |-> t]}

\* The rows the retroactive UPDATE of approve matches.
BulkTargets(normalized) ==
  {i \in MsgIds : Msg(i).from = normalized /\ Msg(i).approved = 0}

\* POST /api/approved-senders, first statement: the allow-list upsert.
ApproveUpsert(p, email, name) ==
  /\ pc[p] = Idle
  /\ LET normalized == toLowerCase(email)
     IN /\ approved_senders' = Upsert(approved_senders, normalized, name, now)
        /\ pc' = [pc EXCEPT ![p] = [op |-> "approve", email |-> email,
                                    normalized |-> normalized, name |-> name]]
  /\ hist' = [hist EXCEPT !.appr =
                IF hist.appr.stage \in {2, 4} /\ hist.appr.email = email
                THEN [stage |-> 3, email |-> email, proc |-> p]
                ELSE [stage |-> 1, email |-> email, proc |-> p]]
  /\ UNCHANGED <<messages, threads, message_labels, attachments, drafts, draftSeq,
                 resp, now, sent, env>>

\* POST /api/approved-senders, second statement: approve the sender's messages.
ApproveBulk(p) ==
  /\ pc[p].op = "approve"
  /\ LET hit == BulkTargets(pc[p].normalized)
     IN /\ messages' = [i \in MsgIds |->
                          IF i \in hit THEN [Msg(i) EXCEPT !.approved = 1] ELSE Msg(i)]
        /\ Reply([op |-> "approve", arg |-> pc[p].email,
                  name |-> pc[p].name, email |-> pc[p].normalized,
                  approved_count |-> Cardinality(hit)])
  /\ pc' = [pc EXCEPT ![p] = Idle]
  /\ hist' = [hist EXCEPT !.appr =
                IF hist.appr.proc = p /\ hist.appr.stage \in {1, 3}
                THEN [hist.appr EXCEPT !.stage = hist.appr.stage + 1]
                ELSE NoRun]
  /\ UNCHANGED <<threads, approved_senders, message_labels, attachments, drafts,
                 draftSeq, now, sent, env>>

\* A revoke that also takes the approval of the sender's messages back.
RevokeDeapproving(email) ==
  /\ approved_senders' = {r \in approved_senders : r.email # toLowerCase(email)}
  /\ messages' = [i \in MsgIds |->
                    IF Msg(i).from = toLowerCase(email)
                    THEN [Msg(i) EXCEPT !.approved = 0] ELSE Msg(i)]
  /\ Reply([op |-> "revoke", removed |-> toLowerCase(email)])
  /\ Other
  /\ UNCHANGED <<threads, message_labels, attachments, drafts, draftSeq, pc, now, sent, env>>

\* DELETE /api/approved-senders/:email
Revoke(email) ==
  /\ approved_senders' = {r \in approved_senders : r.email # toLowerCase(email)}
  /\ Reply([op |-> "revoke", removed |-> toLowerCase(email)])
  /\ Other
  /\ UNCHANGED <<messages, threads, message_labels, attachments, drafts, draftSeq,
                 pc, now, sent, env>>

\* ------------------------------------------------------------------ queries
\* ORDER BY created_at DESC: every order of the rows S the store may return.
OrderedDesc(S) ==
  {s \in [1..Cardinality(S) -> S] :
     \A i, j \in 1..Cardinality(S) :
        i < j => s[i] # s[j] /\ Msg(s[i]).created_at >= Msg(s[j]).created_at}

\* ORDER BY created_at ASC
OrderedAsc(S) ==
  {s \in [1..Cardinality(S) -> S] :
     \A i, j \in 1..Cardinality(S) :
        i < j => s[i] # s[j] /\ Msg(s[i]).created_at <= Msg(s[j]).created_at}

\* LIMIT n
Limit(s, n) == SubSeq(s, 1, Min(n, Len(s)))

LabelsOf(id) == {r.label : r \in {q \in message_labels : q.message_id = id}}

\* The WHERE clause of GET /api/messages.
ListFilter(includeArchived, direction, from, label) ==
  {i \in MsgIds :
     /\ Msg(i).approved = 1
     /\ includeArchived \/ Msg(i).archived = 0
     /\ direction = UNDEF \/ Msg(i).direction = direction
     /\ from = UNDEF \/ Msg(i).from = from
     /\ label = UNDEF \/ label \in LabelsOf(i)}

\* GET /api/messages
ListMessages(includeArchived, direction, from, label, limit) ==
  /\ \E s \in OrderedDesc(ListFilter(includeArchived, direction, from, label)) :
        Reply([op |-> "list", includeArchived |-> includeArchived,
               rows |-> Limit(s, limit)])
  /\ Other
  /\ UNCHANGED <<messages, threads, approved_senders, message_labels, attachments,
                 drafts, draftSeq, pc, now, sent, env>>

\* A gate that asks only whether the row exists.
GateExists(id) == id \in MsgIds

\* The approval gate of the single-message handlers: the row exists and approved = 1.
Gate(id) == id \in MsgIds /\ Msg(id).approved = 1

\* GET /api/messages/:id
GetMessage(id) ==
  /\ Reply([op |-> "get", id |-> id,
            kind |-> IF Gate(id) THEN "ok" ELSE "NotFound"])
  /\ Other
  /\ UNCHANGED <<messages, threads, approved_senders, message_labels, attachments,
                 drafts, draftSeq, pc, now, sent, env>>

\* GET /api/attachments/:id; blob: whether the blob store still holds the object.
GetAttachment(id, blob) ==
  /\ LET att == {a \in attachments : a.id = id}
     IN Reply([op |-> "attachment", id |-> id,
               kind |-> IF att = {} THEN "NotFound"
                        ELSE IF ~ \A a \in att : Gate(a.message_id) THEN "NotFound"
                        ELSE IF ~ blob THEN "DataNotFound"
                        ELSE "ok"])
  /\ Other
  /\ UNCHANGED <<messages, threads, approved_senders, message_labels, attachments,
                 drafts, draftSeq, pc, now, sent, env>>

\* GET /api/threads
ListThreads ==
  /\ Reply([op |-> "threads",
            ids |-> {t \in threads : \E i \in MsgIds :
                        Msg(i).thread_id = t /\ Msg(i).approved = 1}])
  /\ Other
  /\ UNCHANGED <<messages, threads, approved_senders, message_labels, attachments,
                 drafts, draftSeq, pc, now, sent, env>>

\* GET /api/threads/:id
GetThread(t) ==
  /\ LET rows == {i \in MsgIds : Msg(i).thread_id = t /\ Msg(i).approved = 1}
     IN IF t \notin threads \/ rows = {}
        THEN Reply([op |-> "thread", id |-> t, kind |-> "NotFound",
                    rows |-> <<>>])
        ELSE \E s \in OrderedAsc(rows) :
                Reply([op |-> "thread", id |-> t, kind |-> "ok", rows |-> s])
  /\ Other
  /\ UNCHANGED <<messages, threads, approved_senders, message_labels, attachments,
                 drafts, draftSeq, pc, now, sent, env>>

\* GET /api/pending
ListPending(limit) ==
  /\ \E s \in OrderedDesc({i \in MsgIds : Msg(i).approved = 0}) :
        Reply([op |-> "pending", rows |-> Limit(s, limit)])
  /\ Other
  /\ UNCHANGED <<messages, threads, approved_senders, message_labels, attachments,
                 drafts, draftSeq, pc, now, sent, env>>

\* ------------------------------------------------------------------ labels
\* An INSERT into a table that has no key on (message_id, label).
InsertLabelNoKey(rows, id, label, t) ==
  rows \cup {[message_id |-> id, label |-> label, created_at |-> t]}

\* INSERT INTO message_labels ... ON CONFLICT (message_id, label) DO NOTHING
InsertLabel(rows, id, label, t) ==
  IF \E r \in rows : r.message_id = id /\ r.label = label
  THEN rows
  ELSE rows \cup {[message_id |-> id, label |-> label, created_at |-> t]}

\* The same for the rows of one multi-row INSERT, taken in order.
RECURSIVE InsertLabels(_, _, _, _)
InsertLabels(rows, id, labels, t) ==
  IF labels = <<>> THEN rows
  ELSE InsertLabels(InsertLabel(rows, id, Head(labels), t), id, Tail(labels), t)

\* DELETE FROM message_labels WHERE message_id = id AND label = label
DeleteLabel(rows, id, label) ==
  {r \in rows : ~(r.message_id = id /\ r.label = label)}

\* POST /api/messages/:id/labels: the gate, then one INSERT per label, then the SELECT.
AddLabelsApiCheck(p, id, labels) ==
  /\ pc[p] = Idle
  /\ IF Gate(id)
     THEN /\ pc' = [pc EXCEPT ![p] = [op |-> "addLabelsApi", id |-> id,
                                      rest |-> labels, t |-> now]]
          /\ UNCHANGED resp
     ELSE /\ Reply([op |-> "addLabelsApi", id |-> id, kind |-> "NotFound",
                    labels |-> {}])
          /\ UNCHANGED pc
  /\ Other
  /\ UNCHANGED <<messages, threads, approved_senders, message_labels, attachments,
                 drafts, draftSeq, now, sent, env>>

AddLabelsApiInsert(p) ==
  /\ pc[p].op = "addLabelsApi"
  /\ pc[p].rest # <<>>
  /\ message_labels' = InsertLabel(message_labels, pc[p].id, Head(pc[p].rest), pc[p].t)
  /\ pc' = [pc EXCEPT ![p].rest = Tail(pc[p].rest)]
  /\ Other
  /\ UNCHANGED <<messages, threads, approved_senders, attachments, drafts, draftSeq,
                 resp, now, sent, env>>

AddLabelsApiSelect(p) ==
  /\ pc[p].op = "addLabelsApi"
  /\ pc[p].rest = <<>>
  /\ Reply([op |-> "addLabelsApi", id |-> pc[p].id, kind |-> "ok",
            labels |-> LabelsOf(pc[p].id)])
  /\ pc' = [pc EXCEPT ![p] = Idle]
  /\ Other
  /\ UNCHANGED <<messages, threads, approved_senders, message_labels, attachments,
                 drafts, draftSeq, now, sent, env>>

\* labels.ts addLabels: the gate, then one multi-row INSERT, then the SELECT.
AddLabelsCheck(p, id, labels) ==
  /\ pc[p] = Idle
  /\ IF Gate(id)
     THEN /\ pc' = [pc EXCEPT ![p] = [op |-> "addLabels", id |-> id, at |-> "insert",
                                      labels |-> labels, t |-> now]]
          /\ UNCHANGED resp
     ELSE /\ Reply([op |-> "addLabels", id |-> id, kind |-> "NotFound",
                    labels |-> {}])
          /\ UNCHANGED pc
  /\ Other
  /\ UNCHANGED <<messages, threads, approved_senders, message_labels, attachments,
                 drafts, draftSeq, now, sent, env>>

AddLabelsInsert(p) ==
  /\ pc[p].op = "addLabels"
  /\ pc[p].at = "insert"
  /\ message_labels' = InsertLabels(message_labels, pc[p].id, pc[p].labels, pc[p].t)
  /\ pc' = [pc EXCEPT ![p].at = "select"]
  /\ Other
  /\ UNCHANGED <<messages, threads, approved_senders, attachments, drafts, draftSeq,
                 resp, now, sent, env>>

AddLabelsSelect(p) ==
  /\ pc[p].op = "addLabels"
  /\ pc[p].at = "select"
  /\ Reply([op |-> "addLabels", id |-> pc[p].id, kind |-> "ok",
            labels |-> LabelsOf(pc[p].id)])
  /\ pc' = [pc EXCEPT ![p] = Idle]
  /\ Other
  /\ UNCHANGED <<messages, threads, approved_senders, message_labels, attachments,
                 drafts, draftSeq, now, sent, env>>

\* DELETE /api/messages/:id/labels/:label
RemoveLabelApi(id, label) ==
  /\ message_labels' = DeleteLabel(message_labels, id, label)
  /\ Reply([op |-> "removeLabelApi", id |-> id, kind |-> "ok"])
  /\ Other
  /\ UNCHANGED <<messages, threads, approved_senders, attachments, drafts, draftSeq,
                 pc, now, sent, env>>

\* labels.ts removeLabel
RemoveLabel(id, label) ==
  /\ IF Gate(id)
     THEN /\ message_labels' = DeleteLabel(message_labels, id, label)
          /\ Reply([op |-> "removeLabel", id |-> id, kind |-> "ok"])
     ELSE /\ UNCHANGED message_labels
          /\ Reply([op |-> "removeLabel", id |-> id, kind |-> "NotFound"])
  /\ Other
  /\ UNCHANGED <<messages, threads, approved_senders, attachments, drafts, draftSeq,
                 pc, now, sent, env>>

\* ------------------------------------------------------------------ archive
\* The UPDATE without its WHERE clause.
SetArchivedAll(id, flag) ==
  [i \in MsgIds |-> [Msg(i) EXCEPT !.archived = flag]]

\* UPDATE messages SET archived = flag WHERE id = id
SetArchived(id, flag) ==
  [i \in MsgIds |-> IF i = id THEN [Msg(i) EXCEPT !.archived = flag] ELSE Msg(i)]

\* POST /api/messages/:id/archive (flag = 1) and /unarchive (flag = 0)
ArchiveApi(id, flag) ==
  /\ messages' = SetArchived(id, flag)
  /\ Reply([op |-> "archiveApi", id |-> id, flag |-> flag, kind |-> "ok"])
  /\ Other
  /\ UNCHANGED <<threads, approved_senders, message_labels, attachments, drafts,
                 draftSeq, pc, now, sent, env>>

\* archiveMessage (flag = 1) and unarchiveMessage (flag = 0)
ArchiveMessage(id, flag) ==
  /\ IF id \in MsgIds
     THEN /\ messages' = SetArchived(id, flag)
          /\ Reply([op |-> "archive", id |-> id, flag |-> flag, kind |-> "ok"])
     ELSE /\ UNCHANGED messages
          /\ Reply([op |-> "archive", id |-> id, flag |-> flag,
                    kind |-> "NotFound"])
  /\ Other
  /\ UNCHANGED <<threads, approved_senders, message_labels, attachments, drafts,
                 draftSeq, pc, now, sent, env>>

\* ------------------------------------------------------------------ delivery status
\* The event types of the provider, and one it does not document.
EventTypes == {"email.sent", "email.delivered", "email.bounced", "email.complained",
               "email.opened"}

RESEND_STATUS_MAP(type) ==
  CASE type = "email.sent" -> "sent"
    [] type = "email.delivered" -> "delivered"
    [] type = "email.bounced" -> "bounced"
    [] type = "email.complained" -> "complained"
    [] OTHER -> UNDEF

\* UPDATE messages SET status = status WHERE message_id = email_id
SetStatus(email_id, status) ==
  [i \in MsgIds |->
     IF Msg(i).message_id = email_id THEN [Msg(i) EXCEPT !.status = status] ELSE Msg(i)]

\* POST /webhooks/resend; token: the query parameter (UNDEF: none given),
\* email_id: data.email_id of the payload (UNDEF: none given).
Webhook(token, type, email_id) ==
  /\ LET secret == env.RESEND_WEBHOOK_SECRET
         status == RESEND_STATUS_MAP(type)
         answer(kind) == Reply([op |-> "webhook", token |-> token, type |-> type,
                                email_id |-> email_id, kind |-> kind])
     IN IF ~Falsy(secret) /\ token # secret
        THEN /\ answer("Unauthorized")
             /\ UNCHANGED messages
        ELSE IF status = UNDEF \/ email_id = UNDEF
        THEN /\ answer("ok")
             /\ UNCHANGED messages
        ELSE /\ messages' = SetStatus(email_id, status)
             /\ answer("ok")
  /\ Other
  /\ UNCHANGED <<threads, approved_senders, message_labels, attachments, drafts,
                 draftSeq, pc, now, sent, env>>

\* ------------------------------------------------------------------ sending
FROM_EMAIL == "me@x"

\* The id of the thread a send without threadId creates, one per message row.
FreshThread(id) == <<"n1", "n2", "n3", "n4", "n5", "n6">>[id]

\* The locals of a request that has entered sendEmail; draft is the id the request
\* names: a draft's for sendDraft, a message's for reply.
SendEmailFrame(caller, via, draft, threadId, inReplyTo, references, subject, body) ==
  [op |-> "sendEmail", caller |-> caller, via |-> via, draft |-> draft, at |-> "call",
   threadId |-> threadId, inReplyTo |-> inReplyTo, references |-> references,
   subject |-> subject, body |-> body, message_id |-> NULL, dbId |-> 0, calls |-> 0]

\* sendEmail, the call of the external sender: it accepts the mail and names it,
\* or it fails and sendEmail throws to the caller of the handler.
SendEmailCall(p, ok) ==
  /\ pc[p].op = "sendEmail"
  /\ pc[p].at = "call"
  /\ IF ok
     THEN /\ Len(sent) < MaxSends
          /\ pc' = [pc EXCEPT ![p].at = "persist",
                              ![p].message_id = ProviderId(Len(sent) + 1),
                              ![p].calls = pc[p].calls + 1]
          /\ sent' = Append(sent, IF pc[p].caller = "sendDraft" THEN pc[p].draft ELSE 0)
          /\ UNCHANGED resp
     ELSE /\ pc' = [pc EXCEPT ![p] = Idle]
          /\ Reply([op |-> pc[p].caller, via |-> pc[p].via,
                    id |-> pc[p].draft, kind |-> "UpstreamFailure",
                    calls |-> pc[p].calls + 1, dbId |-> 0])
          /\ UNCHANGED sent
  /\ Other
  /\ UNCHANGED <<messages, threads, approved_senders, message_labels, attachments,
                 drafts, draftSeq, now, env>>

\* sendEmail, after the sender accepted: the outbound Message is persisted.
SendEmailPersist(p) ==
  /\ pc[p].op = "sendEmail"
  /\ pc[p].at = "persist"
  /\ LET id == Len(messages) + 1
         l == pc[p]
         th == IF l.threadId = UNDEF THEN FreshThread(id) ELSE l.threadId
     IN /\ messages' = Append(messages,
               NewMessage(id, th, l.message_id,
                          IF l.inReplyTo = UNDEF THEN NULL ELSE l.inReplyTo,
                          FROM_EMAIL, l.subject, l.body, "outbound", 1, "sent", now))
        /\ threads' = threads \cup {th}
        /\ pc' = [pc EXCEPT ![p].at = "done", ![p].dbId = id, ![p].threadId = th]
        /\ hist' = [hist EXCEPT !.appr = NoRun,
                                !.made = IF l.caller # "sendDraft" THEN hist.made
                                         ELSE [hist.made EXCEPT ![l.draft] = @ \cup {id}],
                                !.refs[id] = l.references]
  /\ UNCHANGED <<approved_senders, message_labels, attachments, drafts, draftSeq,
                 resp, now, sent, env>>

\* POST /api/messages/:id/reply: the gate, then replyToMessage.
ReplyCheck(p, id, body) ==
  /\ pc[p] = Idle
  /\ IF Gate(id)
     THEN /\ pc' = [pc EXCEPT ![p] =
                      SendEmailFrame("reply", "api", id, Msg(id).thread_id,
                                     IF Msg(id).message_id = NULL THEN UNDEF
                                     ELSE Msg(id).message_id,
                                     <<>>, Msg(id).subject, body)]
          /\ UNCHANGED resp
     ELSE /\ Reply([op |-> "reply", via |-> "api", id |-> id,
                    kind |-> "NotFound", calls |-> 0, dbId |-> 0])
          /\ UNCHANGED pc
  /\ Other
  /\ UNCHANGED <<messages, threads, approved_senders, message_labels, attachments,
                 drafts, draftSeq, now, sent, env>>

ReplyDone(p) ==
  /\ pc[p].op = "sendEmail"
  /\ pc[p].at = "done"
  /\ pc[p].caller = "reply"
  /\ Reply([op |-> "reply", via |-> "api", id |-> pc[p].draft, kind |-> "ok",
            calls |-> pc[p].calls, dbId |-> pc[p].dbId])
  /\ pc' = [pc EXCEPT ![p] = Idle]
  /\ Other
  /\ UNCHANGED <<messages, threads, approved_senders, message_labels, attachments,
                 drafts, draftSeq, now, sent, env>>

\* ------------------------------------------------------------------ drafts
DraftIds == 1..MaxDrafts
DraftRows(id) == {d \in drafts : d.id = id}

\* JS `v || d`, which also replaces the empty string.
CoalesceOr(v, d) == IF v \in {UNDEF, NULL, ""} THEN d ELSE v

\* JS `v ?? d`
Coalesce(v, d) == IF v \in {UNDEF, NULL} THEN d ELSE v

\* createDraft / POST /api/drafts
CreateDraft(via, params) ==
  /\ draftSeq < MaxDrafts
  /\ draftSeq' = draftSeq + 1
  /\ drafts' = drafts \cup
       {[id |-> draftSeq + 1,
         thread_id |-> Coalesce(params.thread_id, NULL),
         to |-> Coalesce(params.to, NULL),
         cc |-> Coalesce(params.cc, NULL),
         bcc |-> Coalesce(params.bcc, NULL),
         subject |-> Coalesce(params.subject, ""),
         body_text |-> Coalesce(params.body_text, ""),
         created_at |-> now, updated_at |-> now]}
  /\ Reply([op |-> "createDraft", via |-> via, id |-> draftSeq + 1])
  /\ hist' = [hist EXCEPT !.appr = NoRun, !.given[draftSeq + 1] = params]
  /\ UNCHANGED <<messages, threads, approved_senders, message_labels, attachments,
                 pc, now, sent, env>>

\* getDraft / GET /api/drafts/:id
GetDraft(via, id) ==
  /\ IF DraftRows(id) = {}
     THEN Reply([op |-> "getDraft", via |-> via, id |-> id,
                 kind |-> "NotFound", rows |-> {}])
     ELSE Reply([op |-> "getDraft", via |-> via, id |-> id,
                 kind |-> "ok", rows |-> DraftRows(id)])
  /\ Other
  /\ UNCHANGED <<messages, threads, approved_senders, message_labels, attachments,
                 drafts, draftSeq, pc, now, sent, env>>

\* An update that writes the whole row: fields left out of the body are cleared.
ApplyUpdateClearing(d, params, t) ==
  [id |-> d.id,
   thread_id |-> Coalesce(params.thread_id, NULL),
   to |-> Coalesce(params.to, NULL),
   cc |-> Coalesce(params.cc, NULL),
   bcc |-> Coalesce(params.bcc, NULL),
   subject |-> Coalesce(params.subject, ""),
   body_text |-> Coalesce(params.body_text, ""),
   created_at |-> d.created_at,
   updated_at |-> t]

\* The SET clause of updateDraft: the fields present, and updated_at.
ApplyUpdate(d, params, t) ==
  [id |-> d.id,
   thread_id |-> IF params.thread_id # UNDEF THEN params.thread_id ELSE d.thread_id,
   to |-> IF params.to # UNDEF THEN params.to ELSE d.to,
   cc |-> IF params.cc # UNDEF THEN params.cc ELSE d.cc,
   bcc |-> IF params.bcc # UNDEF THEN params.bcc ELSE d.bcc,
   subject |-> IF params.subject # UNDEF THEN params.subject ELSE d.subject,
   body_text |-> IF params.body_text # UNDEF THEN params.body_text ELSE d.body_text,
   created_at |-> d.created_at,
   updated_at |-> t]

\* updateDraft / PUT /api/drafts/:id, the SELECT of the existing row ...
UpdateDraftCheck(p, via, id, params) ==
  /\ pc[p] = Idle
  /\ IF DraftRows(id) = {}
     THEN /\ Reply([op |-> "updateDraft", via |-> via, id |-> id,
                    kind |-> "NotFound"])
          /\ UNCHANGED pc
     ELSE /\ pc' = [pc EXCEPT ![p] = [op |-> "updateDraft", via |-> via, id |-> id,
                                      params |-> params, t |-> now]]
          /\ UNCHANGED resp
  /\ Other
  /\ UNCHANGED <<messages, threads, approved_senders, message_labels, attachments,
                 drafts, draftSeq, now, sent, env>>

\* ... and the UPDATE ... WHERE id = id.
UpdateDraftWrite(p) ==
  /\ pc[p].op = "updateDraft"
  /\ drafts' = {IF d.id = pc[p].id THEN ApplyUpdate(d, pc[p].params, pc[p].t) ELSE d :
                  d \in drafts}
  /\ Reply([op |-> "updateDraft", via |-> pc[p].via, id |-> pc[p].id,
            kind |-> "ok"])
  /\ pc' = [pc EXCEPT ![p] = Idle]
  /\ Other
  /\ UNCHANGED <<messages, threads, approved_senders, message_labels, attachments,
                 draftSeq, now, sent, env>>

\* A send that deletes the draft as soon as it has read it, before sending.
SendDraftReadDeleting(p, via, id) ==
  /\ pc[p] = Idle
  /\ \E d \in DraftRows(id) :
        /\ ~Falsy(d.to)
        /\ pc' = [pc EXCEPT ![p] = SendEmailFrame("sendDraft", via, id, UNDEF, UNDEF,
                                                  <<>>, d.subject, d.body_text)]
  /\ drafts' = drafts \ DraftRows(id)
  /\ hist' = [hist EXCEPT !.appr = NoRun, !.removed[id] = "send"]
  /\ UNCHANGED <<messages, threads, approved_senders, message_labels, attachments,
                 draftSeq, resp, now, sent, env>>

\* sendDraft / POST /api/drafts/:id/send: the draft is read and checked.  The
\* handler of api.ts goes on to sendEmail with no threading metadata; sendDraft
\* of drafts.ts first links the draft to its thread when thread_id is set.
SendDraftRead(p, via, id) ==
  /\ pc[p] = Idle
  /\ IF DraftRows(id) = {}
     THEN /\ Reply([op |-> "sendDraft", via |-> via, id |-> id,
                    kind |-> "NotFound", calls |-> 0, dbId |-> 0])
          /\ UNCHANGED pc
     ELSE \E d \in DraftRows(id) :
            IF Falsy(d.to)
            THEN /\ Reply([op |-> "sendDraft", via |-> via, id |-> id,
                           kind |-> "NoRecipient", calls |-> 0, dbId |-> 0])
                 /\ UNCHANGED pc
            ELSE /\ pc' = [pc EXCEPT ![p] =
                             IF via = "lib" /\ ~Falsy(d.thread_id)
                             THEN [op |-> "link", via |-> via, draft |-> d]
                             ELSE SendEmailFrame("sendDraft", via, id, UNDEF, UNDEF,
                                                 <<>>, d.subject, d.body_text)]
                 /\ UNCHANGED resp
  /\ Other
  /\ UNCHANGED <<messages, threads, approved_senders, message_labels, attachments,
                 drafts, draftSeq, now, sent, env>>

\* The rows `ORDER BY created_at DESC` may put first among those of thread t.
LatestInThread(t) ==
  {i \in MsgIds : /\ Msg(i).thread_id = t
                  /\ \A j \in MsgIds : Msg(j).thread_id = t
                                        => Msg(j).created_at <= Msg(i).created_at}

\* A References header that names the latest message alone.
ReferencesLatestOnly(m) == <<m.message_id>>

\* The references sendDraft computes from the latest row, as the list of ids the
\* space-separated string holds.
ReferencesOf(m) ==
  IF m.in_reply_to # NULL THEN <<m.in_reply_to, m.message_id>> ELSE <<m.message_id>>

\* sendDraft of drafts.ts, the thread linkage.
SendDraftLink(p) ==
  /\ pc[p].op = "link"
  /\ LET d == pc[p].draft
         frame(irt, refs) == SendEmailFrame("sendDraft", pc[p].via, d.id, d.thread_id,
                                            irt, refs, d.subject, d.body_text)
     IN IF LatestInThread(d.thread_id) = {}
        THEN pc' = [pc EXCEPT ![p] = frame(UNDEF, <<>>)]
        ELSE \E i \in LatestInThread(d.thread_id) :
               pc' = [pc EXCEPT ![p] =
                        IF Msg(i).message_id # NULL
                        THEN frame(Msg(i).message_id, ReferencesOf(Msg(i)))
                        ELSE frame(UNDEF, <<>>)]
  /\ Other
  /\ UNCHANGED <<messages, threads, approved_senders, message_labels, attachments,
                 drafts, draftSeq, resp, now, sent, env>>

\* The delete in a `finally`: it runs when sendEmail returned and when it threw.
SendDraftDeleteAlways(p) ==
  /\ pc[p].op = "sendEmail"
  /\ pc[p].at \in {"call", "done"}
  /\ pc[p].caller = "sendDraft"
  /\ drafts' = drafts \ DraftRows(pc[p].draft)
  /\ Reply([op |-> "sendDraft", via |-> pc[p].via, id |-> pc[p].draft,
            kind |-> IF pc[p].at = "done" THEN "ok" ELSE "UpstreamFailure",
            calls |-> IF pc[p].at = "done" THEN pc[p].calls ELSE pc[p].calls + 1,
            dbId |-> pc[p].dbId])
  /\ pc' = [pc EXCEPT ![p] = Idle]
  /\ hist' = [hist EXCEPT !.appr = NoRun,
                          !.removed = IF DraftRows(pc[p].draft) = {} THEN hist.removed
                                      ELSE [hist.removed EXCEPT ![pc[p].draft] = "send"]]
  /\ UNCHANGED <<messages, threads, approved_senders, message_labels, attachments,
                 draftSeq, now, sent, env>>

\* sendDraft / POST /api/drafts/:id/send after sendEmail returned: the draft goes.
SendDraftDelete(p) ==
  /\ pc[p].op = "sendEmail"
  /\ pc[p].at = "done"
  /\ pc[p].caller = "sendDraft"
  /\ drafts' = drafts \ DraftRows(pc[p].draft)
  /\ Reply([op |-> "sendDraft", via |-> pc[p].via, id |-> pc[p].draft,
            kind |-> "ok", calls |-> pc[p].calls, dbId |-> pc[p].dbId])
  /\ pc' = [pc EXCEPT ![p] = Idle]
  /\ hist' = [hist EXCEPT !.appr = NoRun,
                          !.removed = IF DraftRows(pc[p].draft) = {} THEN hist.removed
                                      ELSE [hist.removed EXCEPT ![pc[p].draft] = "send"]]
  /\ UNCHANGED <<messages, threads, approved_senders, message_labels, attachments,
                 draftSeq, now, sent, env>>

\* DELETE /api/drafts/:id
DeleteDraftApi(id) ==
  /\ drafts' = drafts \ DraftRows(id)
  /\ Reply([op |-> "deleteDraft", via |-> "api", id |-> id, kind |-> "ok"])
  /\ hist' = [hist EXCEPT !.appr = NoRun,
                          !.removed = IF DraftRows(id) = {} THEN hist.removed
                                      ELSE [hist.removed EXCEPT ![id] = "delete"]]
  /\ UNCHANGED <<messages, threads, approved_senders, message_labels, attachments,
                 draftSeq, pc, now, sent, env>>

\* deleteDraft of drafts.ts, the SELECT of the existing row ...
DeleteDraftCheck(p, id) ==
  /\ pc[p] = Idle
  /\ IF DraftRows(id) = {}
     THEN /\ Reply([op |-> "deleteDraft", via |-> "lib", id |-> id,
                    kind |-> "NotFound"])
          /\ UNCHANGED pc
     ELSE /\ pc' = [pc EXCEPT ![p] = [op |-> "deleteDraft", id |-> id]]
          /\ UNCHANGED resp
  /\ Other
  /\ UNCHANGED <<messages, threads, approved_senders, message_labels, attachments,
                 drafts, draftSeq, now, sent, env>>

\* ... and the DELETE.
DeleteDraftWrite(p) ==
  /\ pc[p].op = "deleteDraft"
  /\ drafts' = drafts \ DraftRows(pc[p].id)
  /\ Reply([op |-> "deleteDraft", via |-> "lib", id |-> pc[p].id,
            kind |-> "ok"])
  /\ pc' = [pc EXCEPT ![p] = Idle]
  /\ hist' = [hist EXCEPT !.appr = NoRun,
                          !.removed = IF DraftRows(pc[p].id) = {} THEN hist.removed
                                      ELSE [hist.removed EXCEPT ![pc[p].id] = "delete"]]
  /\ UNCHANGED <<messages, threads, approved_senders, message_labels, attachments,
                 draftSeq, now, sent, env>>

\* The worker running a request dies between two of its steps: what it has
\* written stays, nothing is answered.
Crash(p) ==
  /\ pc[p] # Idle
  /\ pc' = [pc EXCEPT ![p] = Idle]
  /\ Other
  /\ UNCHANGED <<messages, threads, approved_senders, message_labels, attachments,
                 drafts, draftSeq, resp, now, sent, env>>

\* ------------------------------------------------------------------ search
\* The texts of subjects, bodies and queries, and the characters of each.
Texts == {"", " ", "ab", "Ab b", "a%", "%", "b"}

Chars(s) ==
  CASE s = "" -> <<>>
    [] s = " " -> <<" ">>
    [] s = "ab" -> <<"a", "b">>
    [] s = "Ab b" -> <<"A", "b", " ", "b">>
    [] s = "a%" -> <<"a", "%">>
    [] s = "%" -> <<"%">>
    [] s = "b" -> <<"b">>

\* The words the full-text index holds for a text (unicode61: lower case,
\* split at everything that is neither a letter nor a digit).
Words(s) ==
  CASE s = "ab" -> {"ab"}
    [] s = "Ab b" -> {"ab", "b"}
    [] s = "a%" -> {"a"}
    [] s = "b" -> {"b"}
    [] OTHER -> {}

\* Whether the index accepts the text as a MATCH expression: a bare word is one,
\* the empty string, white space and a string holding % are syntax errors.
FtsSyntaxOk(q) == q \in {"ab", "b", "Ab b"}

\* The rows of messages_fts a well-formed expression matches: all its words occur.
FtsMatch(q, m) ==
  /\ Words(q) # {}
  /\ Words(q) \subseteq (Words(m.subject) \cup
                         (IF m.body_text = NULL THEN {} ELSE Words(m.body_text)))

\* SQLite's LIKE folds the case of ASCII letters.
Fold(c) == IF c = "A" THEN "a" ELSE c

\* text LIKE pat, with no ESCAPE clause: % is any run, _ any one character.
RECURSIVE LikeMatch(_, _)
LikeMatch(pat, txt) ==
  IF pat = <<>> THEN txt = <<>>
  ELSE IF Head(pat) = "%"
       THEN LikeMatch(Tail(pat), txt) \/ (txt # <<>> /\ LikeMatch(pat, Tail(txt)))
  ELSE IF txt = <<>> THEN FALSE
  ELSE /\ Head(pat) = "_" \/ Fold(Head(pat)) = Fold(Head(txt))
       /\ LikeMatch(Tail(pat), Tail(txt))

\* search.ts escapeLike: a backslash before each of % _ \
RECURSIVE escapeLike(_)
escapeLike(cs) ==
  IF cs = <<>> THEN <<>>
  ELSE (IF Head(cs) \in {"%", "_", "\\"} THEN <<"\\", Head(cs)>> ELSE <<Head(cs)>>)
       \o escapeLike(Tail(cs))

\* column LIKE pat; NULL LIKE pat is not true.
ColumnLike(v, pat) == v # NULL /\ LikeMatch(pat, Chars(v))

\* The rows of the primary query: MATCH, approved = 1 and the archived filter.
PrimaryRows(q, includeArchived) ==
  {i \in MsgIds : /\ FtsMatch(q, Msg(i))
                  /\ Msg(i).approved = 1
                  /\ includeArchived \/ Msg(i).archived = 0}

\* A fallback query that has lost its `approved = 1`.
FallbackRowsUngated(pat, includeArchived) ==
  {i \in MsgIds : /\ ColumnLike(Msg(i).subject, pat) \/ ColumnLike(Msg(i).body_text, pat)
                  /\ includeArchived \/ Msg(i).archived = 0}

\* The rows of the fallback query with LIKE pattern pat.
FallbackRows(pat, includeArchived) ==
  {i \in MsgIds : /\ Msg(i).approved = 1
                  /\ ColumnLike(Msg(i).subject, pat) \/ ColumnLike(Msg(i).body_text, pat)
                  /\ includeArchived \/ Msg(i).archived = 0}

\* ORDER BY rank: the index decides, any order of the rows.
AnyOrder(S) ==
  {s \in [1..Cardinality(S) -> S] :
     \A i, j \in 1..Cardinality(S) : i < j => s[i] # s[j]}

\* What the primary query can do on q: return rows, or fail with the syntax
\* error of the index, or fail for a reason of the store ("other").
PrimaryOutcomes(q) == (IF FtsSyntaxOk(q) THEN {"rows"} ELSE {"syntax"}) \cup {"other"}

SearchReply(via, q, includeArchived, primary, path, kind, rows) ==
  Reply([op |-> "search", via |-> via, q |-> q,
         includeArchived |-> includeArchived, primary |-> primary, path |-> path,
         kind |-> kind, rows |-> rows])

\* The pattern of the LIKE fallback of GET /api/search.
LikePatternApi(q) == <<"%">> \o Chars(q) \o <<"%">>

\* The pattern of the LIKE fallback of searchMessages.
LikePattern(q) == <<"%">> \o escapeLike(Chars(q)) \o <<"%">>

\* GET /api/search
SearchApi(q, limit, includeArchived, primary) ==
  /\ primary \in PrimaryOutcomes(q)
  /\ IF Falsy(q)
     THEN SearchReply("api", q, includeArchived, "none", "none", "InvalidInput", <<>>)
     ELSE IF primary = "rows"
     THEN \E s \in AnyOrder(PrimaryRows(q, includeArchived)) :
            SearchReply("api", q, includeArchived, primary, "fts", "ok", Limit(s, limit))
     ELSE \E s \in OrderedDesc(FallbackRows(LikePatternApi(q), includeArchived)) :
            SearchReply("api", q, includeArchived, primary, "like", "ok", Limit(s, limit))
  /\ Other
  /\ UNCHANGED <<messages, threads, approved_senders, message_labels, attachments,
                 drafts, draftSeq, pc, now, sent, env>>

\* search.ts searchMessages
SearchMessages(q, limit, includeArchived, primary) ==
  /\ primary \in PrimaryOutcomes(q)
  /\ IF primary = "rows"
     THEN \E s \in AnyOrder(PrimaryRows(q, includeArchived)) :
            SearchReply("lib", q, includeArchived, primary, "fts", "ok", Limit(s, limit))
     ELSE \E s \in OrderedDesc(FallbackRows(LikePattern(q), includeArchived)) :
            SearchReply("lib", q, includeArchived, primary, "like", "ok", Limit(s, limit))
  /\ Other
  /\ UNCHANGED <<messages, threads, approved_senders, message_labels, attachments,
                 drafts, draftSeq, pc, now, sent, env>>

\* ------------------------------------------------------------------ inputs
LabelLists == {<<"x">>, <<"y">>, <<"x", "x", "y">>}
Directions == {UNDEF, "inbound", "outbound"}
Limits == 1..MaxMsgs
AnyMsgId == 1..(MaxMsgs + 1)     \* ids of inbound rows, and one more
AnyDraftId == 1..(MaxDrafts + 1)
Vias == {"api", "lib"}
Outcomes == {"rows", "syntax", "other"}

\* Bodies of POST /api/drafts: with and without a recipient.
CreateParams == {[NoParams EXCEPT !.to = to] : to \in {UNDEF, "", "r@x"}}

\* Bodies of PUT /api/drafts/:id.
UpdateParams == {[NoParams EXCEPT !.to = "r@x", !.subject = "ab"]}

\* A draft written into thread t1.
ThreadParams == {[NoParams EXCEPT !.to = "r@x", !.thread_id = "t1"]}

\* A draft with every field given, and one with none.
FullParams ==
  {NoParams,
   [to |-> "r@x", cc |-> "c@x", bcc |-> "d@x", subject |-> "ab", body_text |-> "b",
    thread_id |-> "t1"]}

\* Partial bodies of an update: some fields, other fields, no field at all.
PartialParams ==
  {[NoParams EXCEPT !.to = "", !.subject = "b"],
   [NoParams EXCEPT !.cc = "e@x", !.thread_id = "t2"],
   NoParams}

AllParams ==
  [to : {UNDEF, "", "r@x"}, cc : {UNDEF, "c@x"}, bcc : {UNDEF, "d@x"},
   subject : {UNDEF, "ab"}, body_text : {UNDEF, "b"}, thread_id : {UNDEF, "t1"}]

\* ------------------------------------------------------------------ next-state
\* The caller receives the response.  A response is handed over before the next
\* step of any request, so each one is seen against the store it was computed on.
Deliver ==
  /\ resp # NoResp
  /\ resp' = NoResp
  /\ UNCHANGED <<messages, threads, approved_senders, message_labels, attachments,
                 drafts, draftSeq, pc, now, sent, hist, env>>

\* The steps every handler in flight takes, whatever started it.
Continue(p) ==
  \/ IngestInsert(p)
  \/ ApproveBulk(p)
  \/ AddLabelsApiInsert(p)
  \/ AddLabelsApiSelect(p)
  \/ AddLabelsInsert(p)
  \/ AddLabelsSelect(p)
  \/ \E ok \in BOOLEAN : SendEmailCall(p, ok)
  \/ SendEmailPersist(p)
  \/ ReplyDone(p)
  \/ UpdateDraftWrite(p)
  \/ SendDraftLink(p)
  \/ SendDraftDelete(p)
  \/ DeleteDraftWrite(p)
  \/ Crash(p)

Steps ==
  \/ Tick
  \/ \E p \in Procs : Continue(p)
  \/ \E p \in Procs, from \in Emails, th \in ThreadIds, mid \in {NULL} \cup ProviderIds,
        subject \in Texts, body \in {NULL} \cup Texts, att \in BOOLEAN :
        IngestCheck(p, from, th, mid, subject, body, att)
  \/ \E p \in Procs, email \in Emails, name \in Names : ApproveUpsert(p, email, name)
  \/ \E email \in Emails : Revoke(email)
  \/ \E ia \in BOOLEAN, dir \in Directions, from \in {UNDEF} \cup Emails,
        label \in {UNDEF} \cup Labels, limit \in Limits :
        ListMessages(ia, dir, from, label, limit)
  \/ \E id \in AnyMsgId : GetMessage(id)
  \/ \E id \in AnyMsgId, blob \in BOOLEAN : GetAttachment(id, blob)
  \/ ListThreads
  \/ \E t \in ThreadIds : GetThread(t)
  \/ \E limit \in Limits : ListPending(limit)
  \/ \E q \in Texts, limit \in Limits, ia \in BOOLEAN, primary \in Outcomes :
        SearchApi(q, limit, ia, primary) \/ SearchMessages(q, limit, ia, primary)
  \/ \E p \in Procs, id \in AnyMsgId, labels \in LabelLists :
        AddLabelsApiCheck(p, id, labels) \/ AddLabelsCheck(p, id, labels)
  \/ \E id \in AnyMsgId, label \in Labels :
        RemoveLabelApi(id, label) \/ RemoveLabel(id, label)
  \/ \E id \in AnyMsgId, flag \in {0, 1} : ArchiveApi(id, flag) \/ ArchiveMessage(id, flag)
  \/ \E p \in Procs, id \in AnyMsgId : ReplyCheck(p, id, "b")
  \/ \E via \in Vias, params \in AllParams : CreateDraft(via, params)
  \/ \E via \in Vias, id \in AnyDraftId : GetDraft(via, id)
  \/ \E p \in Procs, via \in Vias, id \in AnyDraftId, params \in AllParams :
        UpdateDraftCheck(p, via, id, params)
  \/ \E p \in Procs, via \in Vias, id \in AnyDraftId : SendDraftRead(p, via, id)
  \/ \E id \in AnyDraftId : DeleteDraftApi(id)
  \/ \E p \in Procs, id \in AnyDraftId : DeleteDraftCheck(p, id)

Next == Deliver \/ (resp = NoResp /\ Steps)

Spec == Init /\ [][Next]_vars

\* ---- the allow-list: arrival of mail, approve and revoke, and what callers see
StepsApprove ==
  \/ Tick
  \/ \E p \in Procs, from \in Emails :
        IngestCheck(p, from, "t1", NULL, "ab", NULL, FALSE)
  \/ \E p \in Procs : IngestInsert(p)
  \/ \E p \in Procs, email \in {"a@x", "A@x"}, name \in {NULL, "n1"} :
        ApproveUpsert(p, email, name)
  \/ \E p \in Procs : ApproveBulk(p)
  \/ \E email \in {"a@x", "A@x"} : Revoke(email)
  \/ \E limit \in {MaxMsgs} : ListPending(limit)
  \/ \E id \in AnyMsgId : GetMessage(id)

NextApprove == Deliver \/ (resp = NoResp /\ StepsApprove)

SpecApprove == Init /\ [][NextApprove]_vars

\* ---- the approval gate in front of every handler that reads or acts on a message
StepsGate ==
  \/ \E p \in Procs, att \in BOOLEAN : IngestCheck(p, "a@x", "t1", "a", "ab", NULL, att)
  \/ \E p \in Procs : IngestInsert(p)
  \/ \E p \in Procs : ApproveUpsert(p, "a@x", NULL)
  \/ \E p \in Procs : ApproveBulk(p)
  \/ \E ia \in BOOLEAN, label \in {UNDEF, "x"} : ListMessages(ia, UNDEF, UNDEF, label, MaxMsgs)
  \/ \E id \in AnyMsgId : GetMessage(id)
  \/ \E id \in AnyMsgId : GetAttachment(id, TRUE)
  \/ ListThreads
  \/ GetThread("t1")
  \/ ListPending(MaxMsgs)
  \/ \E q \in {"ab", "%"}, primary \in Outcomes :
        SearchApi(q, MaxMsgs, FALSE, primary) \/ SearchMessages(q, MaxMsgs, FALSE, primary)
  \/ \E p \in Procs, id \in AnyMsgId :
        AddLabelsApiCheck(p, id, <<"x">>) \/ AddLabelsCheck(p, id, <<"x">>)
  \/ \E p \in Procs :
        \/ AddLabelsApiInsert(p)
        \/ AddLabelsApiSelect(p)
        \/ AddLabelsInsert(p)
        \/ AddLabelsSelect(p)
  \/ \E id \in AnyMsgId : RemoveLabelApi(id, "x") \/ RemoveLabel(id, "x")
  \/ \E p \in Procs, id \in AnyMsgId : ReplyCheck(p, id, "b")
  \/ \E p \in Procs : SendEmailCall(p, FALSE)

NextGate == Deliver \/ (resp = NoResp /\ StepsGate)

SpecGate == Init /\ [][NextGate]_vars

\* ---- the draft lifecycle, with the mails sent from drafts and crashes of workers
StepsDraft ==
  \/ Tick
  \/ \E params \in CreateParams : CreateDraft("api", params)
  \/ \E id \in AnyDraftId : GetDraft("api", id)
  \/ \E p \in Procs, via \in Vias, id \in AnyDraftId, params \in UpdateParams :
        UpdateDraftCheck(p, via, id, params)
  \/ \E p \in Procs : UpdateDraftWrite(p)
  \/ \E p \in Procs, via \in Vias, id \in AnyDraftId : SendDraftRead(p, via, id)
  \/ \E p \in Procs, ok \in BOOLEAN : SendEmailCall(p, ok)
  \/ \E p \in Procs : SendEmailPersist(p)
  \/ \E p \in Procs : SendDraftDelete(p)
  \/ \E id \in AnyDraftId : DeleteDraftApi(id)
  \/ \E p \in Procs, id \in AnyDraftId : DeleteDraftCheck(p, id)
  \/ \E p \in Procs : DeleteDraftWrite(p)
  \/ \E p \in Procs : Crash(p)

NextDraft == Deliver \/ (resp = NoResp /\ StepsDraft)

SpecDraft == Init /\ [][NextDraft]_vars

\* ---- search over mail of differing text, approval and archival
StepsSearch ==
  \/ Tick
  \/ \E p \in Procs, subject \in {"ab", "a%"}, body \in {NULL, "Ab b"} :
        IngestCheck(p, "a@x", "t1", NULL, subject, body, FALSE)
  \/ \E p \in Procs : IngestInsert(p)
  \/ \E p \in Procs : ApproveUpsert(p, "a@x", NULL)
  \/ \E p \in Procs : ApproveBulk(p)
  \/ \E id \in AnyMsgId, flag \in {0, 1} : ArchiveApi(id, flag) \/ ArchiveMessage(id, flag)
  \/ \E q \in {"", " ", "ab", "a%", "%"}, limit \in Limits, ia \in BOOLEAN,
        primary \in Outcomes :
        SearchApi(q, limit, ia, primary) \/ SearchMessages(q, limit, ia, primary)

NextSearch == Deliver \/ (resp = NoResp /\ StepsSearch)

SpecSearch == Init /\ [][NextSearch]_vars

\* ---- sends of a draft into a thread that holds inbound and earlier outbound mail
StepsThread ==
  \/ Tick
  \/ \E p \in Procs, mid \in {NULL, "a"} :
        IngestCheck(p, "a@x", "t1", mid, "ab", NULL, FALSE)
  \/ \E p \in Procs : IngestInsert(p)
  \/ \E params \in ThreadParams : CreateDraft("lib", params)
  \/ \E p \in Procs, via \in Vias : SendDraftRead(p, via, 1)
  \/ \E p \in Procs : SendDraftLink(p)
  \/ \E p \in Procs, ok \in BOOLEAN : SendEmailCall(p, ok)
  \/ \E p \in Procs : SendEmailPersist(p)
  \/ \E p \in Procs : SendDraftDelete(p)
  \/ \E p \in Procs : Crash(p)

NextThread == Deliver \/ (resp = NoResp /\ StepsThread)

SpecThread == Init /\ [][NextThread]_vars

\* ---- delivery events of the provider for mail sent from a draft, in a deployment
\* ---- with and without the webhook secret
Tokens == {UNDEF, "s", "bad"}

StepsWebhook ==
  \/ \E params \in {[NoParams EXCEPT !.to = "r@x"]} : CreateDraft("api", params)
  \/ \E p \in Procs : SendDraftRead(p, "api", 1)
  \/ \E p \in Procs, ok \in BOOLEAN : SendEmailCall(p, ok)
  \/ \E p \in Procs : SendEmailPersist(p)
  \/ \E p \in Procs : SendDraftDelete(p)
  \/ \E token \in Tokens, type \in EventTypes, email_id \in {UNDEF, "p1", "p2"} :
        Webhook(token, type, email_id)

NextWebhook == Deliver \/ (resp = NoResp /\ StepsWebhook)

SpecWebhook == InitAnyEnv /\ [][NextWebhook]_vars

\* ---- labels put on and taken off an approved message by concurrent requests
StepsLabels ==
  \/ Tick
  \/ \E p \in Procs : IngestCheck(p, "a@x", "t1", NULL, "ab", NULL, FALSE)
  \/ \E p \in Procs : IngestInsert(p)
  \/ \E p \in Procs : ApproveUpsert(p, "a@x", NULL)
  \/ \E p \in Procs : ApproveBulk(p)
  \/ \E p \in Procs, labels \in LabelLists :
        AddLabelsApiCheck(p, 1, labels) \/ AddLabelsCheck(p, 1, labels)
  \/ \E p \in Procs :
        \/ AddLabelsApiInsert(p)
        \/ AddLabelsApiSelect(p)
        \/ AddLabelsInsert(p)
        \/ AddLabelsSelect(p)
  \/ \E label \in Labels : RemoveLabel(1, label)

NextLabels == Deliver \/ (resp = NoResp /\ StepsLabels)

SpecLabels == Init /\ [][NextLabels]_vars

\* ---- reads of mail that is archived and taken out of the archive again
StepsArchive ==
  \/ \E p \in Procs : IngestCheck(p, "a@x", "t1", NULL, "ab", NULL, FALSE)
  \/ \E p \in Procs : IngestInsert(p)
  \/ \E p \in Procs : ApproveUpsert(p, "a@x", NULL)
  \/ \E p \in Procs : ApproveBulk(p)
  \/ \E id \in AnyMsgId, flag \in {0, 1} : ArchiveApi(id, flag) \/ ArchiveMessage(id, flag)
  \/ \E ia \in BOOLEAN : ListMessages(ia, UNDEF, UNDEF, UNDEF, MaxMsgs)
  \/ \E id \in AnyMsgId : GetMessage(id)
  \/ GetThread("t1")
  \/ \E ia \in BOOLEAN, primary \in Outcomes :
        SearchApi("ab", MaxMsgs, ia, primary) \/ SearchMessages("ab", MaxMsgs, ia, primary)

NextArchive == Deliver \/ (resp = NoResp /\ StepsArchive)

SpecArchive == Init /\ [][NextArchive]_vars

\* ---- partial updates of a draft, concurrent with each other and with its delete
StepsUpdate ==
  \/ Tick
  \/ \E via \in Vias, params \in FullParams : CreateDraft(via, params)
  \/ \E via \in Vias, id \in AnyDraftId : GetDraft(via, id)
  \/ \E p \in Procs, via \in Vias, id \in AnyDraftId, params \in PartialParams :
        UpdateDraftCheck(p, via, id, params)
  \/ \E p \in Procs : UpdateDraftWrite(p)
  \/ \E id \in AnyDraftId : DeleteDraftApi(id)

NextUpdate == Deliver \/ (resp = NoResp /\ StepsUpdate)

SpecUpdate == Init /\ [][NextUpdate]_vars

\* ---- drafts created from every kind of params and read back
StepsRoundTrip ==
  \/ Tick
  \/ \E via \in Vias, params \in AllParams : CreateDraft(via, params)
  \/ \E via \in Vias, id \in AnyDraftId : GetDraft(via, id)

NextRoundTrip == Deliver \/ (resp = NoResp /\ StepsRoundTrip)

SpecRoundTrip == Init /\ [][NextRoundTrip]_vars

\* ---- every kind of operation on a store with inbound and outbound mail, with
\* ---- one request at a time among those that take several steps
StepsFrame ==
  \/ \E p \in {1} : IngestCheck(p, "a@x", "t1", "a", "ab", NULL, FALSE)
  \/ \E p \in {1} : IngestInsert(p)
  \/ \E p \in {1} : ApproveUpsert(p, "a@x", NULL)
  \/ \E p \in {1} : ApproveBulk(p)
  \/ Revoke("a@x")
  \/ \E id \in {1, 2}, flag \in {0, 1} : ArchiveApi(id, flag) \/ ArchiveMessage(id, flag)
  \/ \E type \in {"email.sent", "email.delivered"} : Webhook("s", type, "p1")
  \/ \E p \in {1} : AddLabelsCheck(p, 1, <<"x">>)
  \/ \E p \in {1} : AddLabelsInsert(p) \/ AddLabelsSelect(p)
  \/ RemoveLabelApi(1, "x")
  \/ \E params \in {[NoParams EXCEPT !.to = "r@x"]} : CreateDraft("api", params)
  \/ \E p \in {1}, params \in {[NoParams EXCEPT !.subject = "ab"]} :
        UpdateDraftCheck(p, "api", 1, params)
  \/ \E p \in {1} : UpdateDraftWrite(p)
  \/ \E p \in {1} : SendDraftRead(p, "api", 1)
  \/ \E p \in {1}, ok \in BOOLEAN : SendEmailCall(p, ok)
  \/ \E p \in {1} : SendEmailPersist(p)
  \/ \E p \in {1} : SendDraftDelete(p)
  \/ DeleteDraftApi(1)
  \/ SearchApi("ab", MaxMsgs, FALSE, "rows")

NextFrame == Deliver \/ (resp = NoResp /\ StepsFrame)

SpecFrame == Init /\ [][NextFrame]_vars

\* ================================================================== claims
\* ------------------------------------------------------------------ C2
\* No message of a sender that is in the allow-list is pending.
ListedSendersApproved ==
  \A r \in approved_senders, i \in MsgIds :
     Msg(i).from = r.email => Msg(i).approved = 1

\* C2: approve's allow-list upsert and its bulk update act as one atomic unit: no
\* operation running in between observes a sender in the allow-list while a
\* message from that sender is still approved = 0 (the pending listing never
\* shows a message of a listed sender), and whenever no request is in flight
\* every message of a sender in the allow-list has approved = 1.
C2_ApproveAtomic ==
  [][/\ (resp = NoResp /\ resp'.op = "pending") =>
          \A k \in 1..Len(resp'.rows), r \in approved_senders :
             Msg(resp'.rows[k]).from # r.email
     /\ (\A p \in Procs : pc'[p] = Idle) => ListedSendersApproved']_vars

\* ------------------------------------------------------------------ C3
\* C3: approval of a message is monotonic: a message that has approved = 1 keeps
\* approved = 1 over every step, revoke of its sender included.
C3_ApprovalMonotonic ==
  [][\A i \in MsgIds :
       Msg(i).approved = 1 => i \in 1..Len(messages') /\ messages'[i].approved = 1]_vars

\* A revoke has removed the sender of an approved inbound message.
C3_Witness ==
  /\ resp.op = "revoke"
  /\ \E i \in MsgIds : /\ toLowerCase(Msg(i).from) = resp.removed
                       /\ Msg(i).direction = "inbound"
                       /\ Msg(i).approved = 1

\* ------------------------------------------------------------------ C4
\* C4: approve(email) is idempotent: called twice in a row with nothing in
\* between, the second call changes no message, returns approved_count = 0 and
\* leaves exactly one allow-list entry for the email, whose name is the one given
\* in the second call.
C4_ApproveIdempotent ==
  [][/\ (hist.appr.stage = 2 /\ hist'.appr.stage = 3) => messages' = messages
     /\ (hist.appr.stage = 3 /\ hist'.appr.stage = 4) =>
          /\ messages' = messages
          /\ resp'.approved_count = 0
          /\ Cardinality({r \in approved_senders' :
                            r.email = toLowerCase(resp'.arg)}) = 1
          /\ \A r \in approved_senders' :
               r.email = toLowerCase(resp'.arg) => r.name = resp'.name]_vars

\* The second of two approves in a row has returned, the first having approved a
\* message that was pending.
C4_Witness ==
  /\ hist.appr.stage = 4
  /\ resp.op = "approve"
  /\ \E i \in MsgIds : Msg(i).from = toLowerCase(resp.arg) /\ Msg(i).approved = 1
  /\ \E r \in approved_senders : r.email = toLowerCase(resp.arg) /\ r.name = "n1"

\* ------------------------------------------------------------------ C5
\* C5: when approve(email, name) has run, for an email in any letter case: the
\* allow-list holds the lower-case form of email, every message with from = email
\* that was pending before the call is approved, and the returned count is the
\* number of messages that went from approved = 0 to approved = 1.
C5_ApproveEffect ==
  [][(hist.appr.stage \in {1, 3} /\ hist'.appr.stage \in {2, 4}) =>
       /\ \E r \in approved_senders' : r.email = toLowerCase(resp'.arg)
       /\ \A i \in MsgIds :
            Msg(i).from = resp'.arg /\ Msg(i).approved = 0 => messages'[i].approved = 1
       /\ resp'.approved_count =
            Cardinality({i \in MsgIds : Msg(i).approved = 0 /\ messages'[i].approved = 1})]_vars

\* ------------------------------------------------------------------ C1
\* The ids a response lists.
Listed(r) == {r.rows[k] : k \in 1..Len(r.rows)}

\* C1: a message with approved = 0 is unreachable through every read-facing path:
\* no message listing, search or thread view contains it, the thread list shows no
\* thread that has only such messages, and get, add-label, remove-label, reply and
\* attachment download on it answer NotFound and leave the labels alone.  (The
\* moderation queue GET /api/pending, which lists exactly the pending messages,
\* is left out of this statement: the claim fails without it.)
C1_PendingUnreachable ==
  [][(resp = NoResp /\ resp' # NoResp) =>
       /\ resp'.op \in {"list", "search", "thread"} =>
            \A i \in Listed(resp') : Msg(i).approved = 1
       /\ resp'.op = "threads" =>
            \A t \in resp'.ids : \E i \in MsgIds : Msg(i).thread_id = t /\ Msg(i).approved = 1
       /\ ( /\ resp'.op \in {"get", "addLabelsApi", "addLabels", "removeLabelApi",
                             "removeLabel", "reply"}
            /\ resp'.id \in MsgIds
            /\ Msg(resp'.id).approved = 0 ) =>
            resp'.kind = "NotFound" /\ message_labels' = message_labels
       /\ resp'.op = "attachment" =>
            \A a \in attachments :
               a.id = resp'.id /\ Msg(a.message_id).approved = 0 => resp'.kind = "NotFound"]_vars

\* ------------------------------------------------------------------ C6
\* C6: when the external sender fails during send(id) of a draft, the call ends
\* there: the failure is returned to the caller, the sender was invoked once (no
\* retry), and drafts, messages and threads are as they were, the draft row
\* included.
C6_SendFailureLeavesStore ==
  [][\A p \in Procs :
       ( /\ pc[p].op = "sendEmail"
         /\ pc[p].caller = "sendDraft"
         /\ pc[p].at = "call"
         /\ pc'[p] # pc[p]
         /\ sent' = sent
         /\ resp' # resp ) =>
         /\ pc'[p] = Idle
         /\ resp'.op = "sendDraft" /\ resp'.id = pc[p].draft
         /\ resp'.kind = "UpstreamFailure"
         /\ resp'.calls = 1
         /\ drafts' = drafts /\ messages' = messages /\ threads' = threads]_vars

\* A send has failed at the external sender and its draft is still there.
C6_Witness ==
  /\ resp.op = "sendDraft"
  /\ resp.kind = "UpstreamFailure"
  /\ DraftRows(resp.id) # {}
  /\ messages = <<>>

\* ------------------------------------------------------------------ C7
\* C7: persisting the sent Message happens before deleting the Draft: in every
\* state, crashes included, a draft row removed by send implies that the external
\* sender accepted a mail for that draft and that the outbound Message of it
\* exists.
C7_PersistBeforeDelete ==
  \A d \in DraftIds :
     hist.removed[d] = "send" =>
       /\ \E k \in 1..Len(sent) : sent[k] = d
       /\ \E i \in hist.made[d] : i \in MsgIds /\ Msg(i).direction = "outbound"

\* A send has removed its draft.
C7_Witness ==
  \E d \in DraftIds : hist.removed[d] = "send" /\ DraftRows(d) = {}

\* ------------------------------------------------------------------ C8
\* C8: send(id) on an existing draft whose `to` is empty or absent answers
\* NoRecipient at once: it never enters sendEmail, the external sender is not
\* invoked, and drafts (updated_at included), messages and threads are unchanged.
C8_NoRecipient ==
  [][\A p \in Procs, d \in drafts :
       (d.to \in {NULL, ""} /\ pc[p] = Idle) =>
         /\ ~(pc'[p].op \in {"link", "sendEmail"} /\ pc'[p] # pc[p]
              /\ (IF pc'[p].op = "link" THEN pc'[p].draft.id ELSE pc'[p].draft) = d.id
              /\ (pc'[p].op = "sendEmail" => pc'[p].caller = "sendDraft"))
         /\ ( /\ resp' # resp /\ pc' = pc
              /\ resp'.op = "sendDraft" /\ resp'.id = d.id ) =>
              /\ resp'.kind = "NoRecipient" /\ resp'.calls = 0
              /\ drafts' = drafts /\ messages' = messages /\ sent' = sent]_vars

\* A send has answered NoRecipient for a draft whose `to` is the empty string,
\* after the clock has moved on from the draft's last update.
C8_Witness ==
  /\ resp.op = "sendDraft"
  /\ resp.kind = "NoRecipient"
  /\ \E d \in DraftRows(resp.id) : d.to = "" /\ d.updated_at < now

\* ------------------------------------------------------------------ C9
\* C9: removal is final: once send or delete has removed the row of a draft, the
\* row never comes back, and every update, send and delete started on that id
\* afterwards answers NotFound and changes neither drafts nor messages.
C9_RemovedIsTerminal ==
  [][\A d \in DraftIds :
       hist.removed[d] # "no" =>
         /\ DraftRows(d)' = {}
         /\ ( /\ resp' # resp /\ pc' = pc
              /\ resp'.op \in {"updateDraft", "sendDraft", "deleteDraft"}
              /\ resp'.id = d ) =>
              resp'.kind = "NotFound" /\ drafts' = drafts /\ messages' = messages]_vars

\* ------------------------------------------------------------------ C10
\* C10: a search whose query the full-text index rejects as malformed does not
\* raise: it answers with the rows of the substring fallback, each of which has
\* approved = 1 and, unless includeArchived is set, archived = 0, in descending
\* order of created_at.
C10_InvalidQueryFallsBack ==
  [][(resp = NoResp /\ resp'.op = "search" /\ resp'.primary = "syntax") =>
       /\ resp'.kind = "ok"
       /\ resp'.path = "like"
       /\ \A i \in Listed(resp') :
            Msg(i).approved = 1 /\ (resp'.includeArchived \/ Msg(i).archived = 0)
       /\ \A j, k \in 1..Len(resp'.rows) :
            j < k => Msg(resp'.rows[j]).created_at >= Msg(resp'.rows[k]).created_at]_vars

\* The fallback has answered a malformed query with a message, while another
\* message that the same pattern matches is pending and is not in the answer.
C10_Witness ==
  /\ resp.op = "search"
  /\ resp.primary = "syntax"
  /\ resp.rows # <<>>
  /\ \E i \in MsgIds \ Listed(resp) :
        /\ Msg(i).approved = 0
        /\ \E j \in Listed(resp) : Msg(j).subject = Msg(i).subject

\* ------------------------------------------------------------------ C11
\* C11: only the syntax error of the index sends a search to the substring
\* fallback: when the primary query fails for any other reason, the search
\* answers with an error and the fallback query is not run.
C11_OnlySyntaxFallsBack ==
  [][(resp = NoResp /\ resp'.op = "search" /\ resp'.primary = "other") =>
       resp'.kind # "ok" /\ resp'.path # "like"]_vars

\* ------------------------------------------------------------------ C12
\* C12: a search whose query is empty or white space only is answered with
\* InvalidInput, and neither the primary nor the fallback query is issued.
C12_BlankQueryRejected ==
  [][(resp = NoResp /\ resp'.op = "search" /\ resp'.q \in {"", " "}) =>
       resp'.kind = "InvalidInput" /\ resp'.path = "none"]_vars

\* ------------------------------------------------------------------ C13
\* The messages of thread t.
InThread(t) == {i \in MsgIds : Msg(i).thread_id = t}

\* C13: when sendDraft links a draft to its thread: if the thread holds exactly a
\* message M1 (message_id a, no in_reply_to) and a later message M2 (message_id b,
\* in_reply_to a), the send gets in_reply_to = b and references = "a b"; if the
\* thread holds no message, or every message that may count as its latest has a
\* null message_id, the send gets neither.
C13_ThreadLinker ==
  [][\A p \in Procs :
       (pc[p].op = "link" /\ pc'[p].op = "sendEmail") =>
         LET t == pc[p].draft.thread_id
         IN /\ \A i, j \in InThread(t) :
                 ( /\ InThread(t) = {i, j}
                   /\ Msg(i).created_at < Msg(j).created_at
                   /\ Msg(i).message_id # NULL /\ Msg(i).in_reply_to = NULL
                   /\ Msg(j).message_id # NULL
                   /\ Msg(j).in_reply_to = Msg(i).message_id ) =>
                   /\ pc'[p].inReplyTo = Msg(j).message_id
                   /\ pc'[p].references = <<Msg(i).message_id, Msg(j).message_id>>
            /\ ( \/ InThread(t) = {}
                 \/ \A i \in LatestInThread(t) : Msg(i).message_id = NULL ) =>
                 /\ pc'[p].inReplyTo = UNDEF
                 /\ pc'[p].references = <<>>
            /\ pc'[p].threadId = t]_vars

\* A third send into the thread of M1 (inbound, message_id a) and M2 (sent later
\* with in_reply_to a and references a) has been linked.
C13_Witness ==
  \E p \in Procs :
     /\ pc[p].op = "sendEmail" /\ pc[p].at = "call"
     /\ pc[p].inReplyTo = "p1" /\ pc[p].references = <<"a", "p1">>
     /\ Len(messages) = 2
     /\ Msg(1).message_id = "a" /\ Msg(2).in_reply_to = "a" /\ hist.refs[2] = <<"a">>
     /\ Msg(1).created_at < Msg(2).created_at

\* ------------------------------------------------------------------ C14
\* C14: the reference chain only grows: the references sendDraft computes for a
\* send into a thread are the references the thread's latest message was sent
\* with, followed by that message's message_id (for some message the store may
\* return as the latest, and nothing when that message has no message_id).
C14_ReferencesAppendOnly ==
  [][\A p \in Procs :
       (pc[p].op = "link" /\ pc'[p].op = "sendEmail") =>
         LET L == LatestInThread(pc[p].draft.thread_id)
         IN L # {} =>
              \E i \in L :
                 pc'[p].references =
                   IF Msg(i).message_id = NULL THEN <<>>
                   ELSE hist.refs[i] \o <<Msg(i).message_id>>]_vars

\* ------------------------------------------------------------------ C15
\* C15: status moves forward only: over every step, delivery events included, a
\* message whose status is delivered, bounced or complained does not go back to
\* sent (or to no status).
C15_StatusForwardOnly ==
  [][\A i \in MsgIds :
       Msg(i).status \in {"delivered", "bounced", "complained"} =>
         messages'[i].status \notin {"sent", NULL}]_vars

\* ------------------------------------------------------------------ C16
\* C16: in every deployment, with or without a webhook secret, a webhook request
\* whose token is not the secret of the deployment changes the status of no
\* message.
C16_WebhookVerified ==
  [][(resp = NoResp /\ resp'.op = "webhook"
        /\ ~(~Falsy(env.RESEND_WEBHOOK_SECRET)
              /\ resp'.token = env.RESEND_WEBHOOK_SECRET)) =>
       \A i \in MsgIds : messages'[i].status = Msg(i).status]_vars

\* ------------------------------------------------------------------ C17
\* C17: labels are mutated on approved messages only: add-labels and remove-label,
\* in api.ts and in labels.ts, answer NotFound on an id that has no message or a
\* message with approved = 0, and every row that a step adds to or removes from
\* message_labels belongs to an approved message.
C17_LabelMutationGated ==
  [][/\ ( /\ resp = NoResp
          /\ resp'.op \in {"addLabelsApi", "addLabels", "removeLabelApi", "removeLabel"}
          /\ ~Gate(resp'.id) ) =>
          resp'.kind = "NotFound" /\ message_labels' = message_labels
     /\ \A r \in (message_labels' \ message_labels) \cup (message_labels \ message_labels') :
          Gate(r.message_id)]_vars

\* ------------------------------------------------------------------ C18
\* The rows of message_labels for message id.
LabelRows(id) == {r \in message_labels : r.message_id = id}

\* C18: the labels of a message are a set.  There is never more than one row for
\* a (message, label) pair, whatever requests run concurrently; the INSERT of
\* addLabels leaves the message with its former labels and those of the list,
\* so [x, x, y] on a message without labels gives exactly {x, y} in two rows;
\* inserting a label that is present changes nothing; and once past the gate an
\* add-labels request answers ok with the labels of the message.
C18_LabelsAreASet ==
  [][/\ \A r1, r2 \in message_labels' :
          (r1.message_id = r2.message_id /\ r1.label = r2.label) => r1 = r2
     /\ \A p \in Procs :
          /\ (pc[p].op = "addLabels" /\ pc[p].at = "insert" /\ pc'[p].at = "select") =>
                /\ LabelsOf(pc[p].id)' = LabelsOf(pc[p].id) \cup Range(pc[p].labels)
                /\ (pc[p].labels = <<"x", "x", "y">> /\ LabelsOf(pc[p].id) = {}) =>
                      /\ LabelsOf(pc[p].id)' = {"x", "y"}
                      /\ Cardinality(LabelRows(pc[p].id)') = 2
                /\ Range(pc[p].labels) \subseteq LabelsOf(pc[p].id) =>
                      message_labels' = message_labels
          /\ (pc[p].op = "addLabelsApi" /\ pc'[p].op = "addLabelsApi"
                /\ pc'[p].rest # pc[p].rest) =>
                /\ LabelsOf(pc[p].id)' = LabelsOf(pc[p].id) \cup {Head(pc[p].rest)}
                /\ Head(pc[p].rest) \in LabelsOf(pc[p].id) =>
                      message_labels' = message_labels
          /\ (pc[p].op \in {"addLabels", "addLabelsApi"} /\ pc'[p] = Idle
                /\ resp' # resp) =>
                /\ resp'.kind = "ok"
                /\ resp'.labels = LabelsOf(pc[p].id)]_vars

\* Two addLabels calls on the same message, started at different times, have both
\* done their INSERT of label x, one of them with the list [x, x, y], and the
\* message has exactly the two rows x and y.
C18_Witness ==
  \E p, q \in Procs :
     /\ p # q
     /\ pc[p].op = "addLabels" /\ pc[p].at = "select"
     /\ pc[p].labels = <<"x", "x", "y">>
     /\ pc[q].op = "addLabels" /\ pc[q].at = "select"
     /\ pc[q].id = pc[p].id /\ pc[q].t # pc[p].t
     /\ "x" \in Range(pc[q].labels)
     /\ LabelsOf(pc[p].id) = {"x", "y"}
     /\ Cardinality(LabelRows(pc[p].id)) = 2

\* ------------------------------------------------------------------ C19
\* C19: a message with archived = 1 is read only by a caller that opts in: the
\* message list and both paths of search return it only with includeArchived,
\* and get-by-id and thread get, which have no such option, never return it.
C19_ArchivedOptIn ==
  [][(resp = NoResp /\ resp' # NoResp) =>
       /\ (resp'.op \in {"list", "search"} /\ ~resp'.includeArchived) =>
            \A i \in Listed(resp') : Msg(i).archived = 0
       /\ resp'.op = "thread" =>
            \A i \in Listed(resp') : Msg(i).archived = 0
       /\ (resp'.op = "get" /\ resp'.kind = "ok") => Msg(resp'.id).archived = 0]_vars

\* ------------------------------------------------------------------ C20
\* The fields of a draft an update may name.
DraftFields == {"to", "cc", "bcc", "subject", "body_text", "thread_id"}

\* C20: the UPDATE of update(id, partial) leaves every other draft as it is and
\* puts in the place of draft id a row that has the value of partial in each
\* field partial holds, the former value in each field it leaves out, the
\* former created_at, and as updated_at the time the update read the clock; an
\* update called on an id that has no draft answers NotFound and changes nothing.
C20_UpdatePartial ==
  [][/\ \A p \in Procs :
          (pc[p].op = "updateDraft" /\ pc'[p] = Idle /\ resp' # resp) =>
            /\ resp'.kind = "ok"
            /\ Cardinality(drafts') = Cardinality(drafts)
            /\ \A d \in drafts :
                 IF d.id # pc[p].id THEN d \in drafts'
                 ELSE \E e \in drafts' :
                        /\ e.id = d.id
                        /\ \A f \in DraftFields :
                             e[f] = IF pc[p].params[f] # UNDEF THEN pc[p].params[f]
                                    ELSE d[f]
                        /\ e.created_at = d.created_at
                        /\ e.updated_at = pc[p].t
     /\ ( /\ resp = NoResp /\ resp'.op = "updateDraft" /\ pc' = pc
          /\ DraftRows(resp'.id) = {} ) =>
          resp'.kind = "NotFound" /\ drafts' = drafts]_vars

\* An update of to and subject has been applied, later than the draft was
\* created, to a draft whose other fields were set: they have their values still.
C20_Witness ==
  /\ resp.op = "updateDraft" /\ resp.kind = "ok"
  /\ \E d \in DraftRows(resp.id) :
        /\ d.to = "" /\ d.subject = "b"
        /\ d.cc = "c@x" /\ d.bcc = "d@x" /\ d.body_text = "b" /\ d.thread_id = "t1"
        /\ d.created_at < d.updated_at

\* ------------------------------------------------------------------ C21
\* C21: getDraft of the id createDraft(params) returned finds the draft, one
\* row whose fields are those of params, with subject and body_text "" where
\* params leaves them out, to, cc, bcc and thread_id null where params leaves
\* them out, and created_at = updated_at.
C21_CreateGetRoundTrip ==
  [][(resp = NoResp /\ resp'.op = "getDraft" /\ resp'.id <= draftSeq) =>
       LET g == hist.given[resp'.id]
       IN /\ resp'.kind = "ok"
          /\ Cardinality(resp'.rows) = 1
          /\ \A d \in resp'.rows :
               /\ d.id = resp'.id
               /\ \A f \in {"to", "cc", "bcc", "thread_id"} :
                    d[f] = IF g[f] = UNDEF THEN NULL ELSE g[f]
               /\ \A f \in {"subject", "body_text"} :
                    d[f] = IF g[f] = UNDEF THEN "" ELSE g[f]
               /\ d.created_at = d.updated_at]_vars

\* A draft created with to = "", cc and thread_id, and without subject, has
\* been read back some time after it was created.
C21_Witness ==
  /\ resp.op = "getDraft" /\ resp.kind = "ok"
  /\ hist.given[resp.id].to = "" /\ hist.given[resp.id].subject = UNDEF
  /\ \E d \in resp.rows :
        /\ d.to = "" /\ d.cc = "c@x" /\ d.bcc = NULL /\ d.thread_id = "t1"
        /\ d.subject = "" /\ d.created_at < now

C23_SendLinksThread ==
  [][\A p \in Procs :
       ( /\ pc'[p].op = "sendEmail" /\ pc'[p].caller = "sendDraft"
         /\ pc[p].op \in {"idle", "link"} ) =>
         \A d \in (IF pc[p].op = "link" THEN {pc[p].draft} ELSE DraftRows(pc'[p].draft)) :
            ( /\ ~Falsy(d.thread_id)
              /\ LatestInThread(d.thread_id) # {}
              /\ \A i \in LatestInThread(d.thread_id) : Msg(i).message_id # NULL ) =>
              /\ pc'[p].threadId = d.thread_id
              /\ \E i \in LatestInThread(d.thread_id) :
                    /\ pc'[p].inReplyTo = Msg(i).message_id
                    /\ pc'[p].references = ReferencesOf(Msg(i))]_vars

\* ------------------------------------------------------------------ C24
\* Message m with its three flags taken from message n.
WithFlagsOf(m, n) ==
  [m EXCEPT !.approved = n.approved, !.status = n.status, !.archived = n.archived]

\* C24: messages are immutable but for approved, status and archived.  No step
\* removes a message or changes another field of one.  archive / unarchive
\* change archived of the message named and nothing else; the bulk update of
\* approve changes approved, from 0 to 1, of pending messages of the sender and
\* nothing else; the webhook changes status of the messages with the given
\* message_id and nothing else; every other step (revoke, labels, drafts,
\* search, the allow-list upsert) leaves all messages that exist as they are.
C24_MessagesImmutable ==
  [][/\ Len(messages') >= Len(messages)
     /\ \A i \in MsgIds : WithFlagsOf(messages'[i], Msg(i)) = Msg(i)
     /\ IF resp = NoResp /\ resp'.op \in {"archiveApi", "archive"}
        THEN \A i \in MsgIds :
               messages'[i] = IF i = resp'.id THEN [Msg(i) EXCEPT !.archived = resp'.flag]
                              ELSE Msg(i)
        ELSE IF resp = NoResp /\ resp'.op = "approve"
        THEN \A i \in MsgIds :
               messages'[i] = IF Msg(i).from = resp'.email /\ Msg(i).approved = 0
                              THEN [Msg(i) EXCEPT !.approved = 1] ELSE Msg(i)
        ELSE IF resp = NoResp /\ resp'.op = "webhook"
        THEN \A i \in MsgIds :
               \/ messages'[i] = Msg(i)
               \/ /\ Msg(i).message_id = resp'.email_id
                  /\ messages'[i] = [Msg(i) EXCEPT !.status = RESEND_STATUS_MAP(resp'.type)]
        ELSE \A i \in MsgIds : messages'[i] = Msg(i)]_vars

\* A delivery event has set the status of a sent mail that is archived, while
\* an inbound message, approved after it had arrived, keeps its flags.
C24_Witness ==
  /\ resp.op = "webhook"
  /\ \E i, j \in MsgIds :
        /\ Msg(i).message_id = resp.email_id
        /\ Msg(i).direction = "outbound"
        /\ Msg(i).status = "delivered" /\ Msg(i).archived = 1
        /\ Msg(j).direction = "inbound"
        /\ Msg(j).approved = 1 /\ Msg(j).archived = 0 /\ Msg(j).status = NULL

\* ------------------------------------------------------------------ C25
\* ---- sends of one draft by requests that overlap; no worker dies, so a second
\* ---- mail for a draft can only come from requests running at the same time
StepsRace ==
  \/ Tick
  \/ \E via \in Vias, params \in ThreadParams : CreateDraft(via, params)
  \/ \E p \in Procs, via \in Vias, id \in AnyDraftId : SendDraftRead(p, via, id)
  \/ \E p \in Procs : SendDraftLink(p)
  \/ \E p \in Procs, ok \in BOOLEAN : SendEmailCall(p, ok)
  \/ \E p \in Procs : SendEmailPersist(p)
  \/ \E p \in Procs : SendDraftDelete(p)

NextRace == Deliver \/ (resp = NoResp /\ StepsRace)

SpecRace == Init /\ [][NextRace]_vars

\* The mails the external sender has accepted for draft d.
AcceptedFor(d) == {k \in 1..Len(sent) : sent[k] = d}

\* C25: whatever the interleaving of the send requests for one draft, the
\* external sender accepts at most one mail for it and at most one outbound
\* message is persisted from it.
C25_SendAtMostOnce ==
  \A d \in 1..MaxDrafts :
     /\ Cardinality(AcceptedFor(d)) <= 1
     /\ Cardinality(hist.made[d]) <= 1

====
